---- MODULE Spec2Model ----
(***************************************************************************)
(* Model of src/app.py: the Hyakunin Isshu quiz.  The script is re-run     *)
(* from top to bottom on every user interaction and keeps its state in     *)
(* st.session_state, a dictionary.  One action of the model is one user    *)
(* event: the script run it triggers, and the run that st.rerun() starts   *)
(* right after it.                                                         *)
(*                                                                         *)
(* The two values of the mode radio are written "ID" (ID順) and "Random"   *)
(* (ランダム).                                                             *)
(***************************************************************************)
EXTENDS Integers, Sequences, FiniteSets, TLC

(* ---------------------------------------------------------------------- *)
(* Bounds and inputs                                                       *)
(* ---------------------------------------------------------------------- *)

\* Largest corpus (number of poems in hyakunin_isshu.json) that is explored.
MaxPoems == 4

\* Number of options shown for a question: 3 sampled decoys (line 109) and
\* the correct lower half (line 112).
NumDecoys == 3

LowerText == <<"a", "b", "c", "d", "e", "f", "g", "h">>

\* The ids are not in ascending order in the file, so that ids.sort() has work.
FileId(i) == IF i % 2 = 1 THEN i + 1 ELSE i - 1

Poem(i) == [id |-> FileId(i), lower |-> LowerText[i]]

\* A corpus of n poems with pairwise distinct ids and lower halves.
Corpus(n) == [i \in 1..n |-> Poem(i)]

\* A corpus with unique ids in which two poems share their lower half.
DupCorpus ==
    << [id |-> 2, lower |-> "a"], [id |-> 1, lower |-> "a"],
       [id |-> 4, lower |-> "b"], [id |-> 3, lower |-> "c"],
       [id |-> 5, lower |-> "d"] >>

NoFile == [exists |-> FALSE, poems |-> << >>]

Files ==
    {NoFile} \cup {[exists |-> TRUE, poems |-> Corpus(n)] : n \in 0..MaxPoems}

Modes == {"ID", "Random"}

VARIABLES
    file,      \* hyakunin_isshu.json: whether it exists, and its poems
    st,        \* st.session_state: a dictionary, key -> value
    screen,    \* what the last script run rendered
    event,     \* history: the user event that triggered the last run
    before,    \* history: index, score and phase a reset event found
    submits,   \* history: submit events on the current question
    advances,  \* history: advance events since the last initialize_quiz
    shown,     \* history: ids of the questions put to the user, in order,
               \*          since the last initialize_quiz
    answered,  \* history: ids of the questions a submit answered, in order,
               \*          since the last initialize_quiz
    correct    \* history: submits since the last initialize_quiz whose choice
               \*          was the lower half of the question's poem

vars == <<file, st, screen, event, before, submits, advances,
          shown, answered, correct>>

(* ---------------------------------------------------------------------- *)
(* Dictionaries and lists                                                  *)
(* ---------------------------------------------------------------------- *)

Has(s, k) == k \in DOMAIN s

Put(s, k, v) == [x \in (DOMAIN s) \cup {k} |-> IF x = k THEN v ELSE s[x]]

Del(s, k) == [x \in (DOMAIN s) \ {k} |-> s[x]]

EmptySession == [x \in {} |-> 0]

Range(q) == {q[i] : i \in 1..Len(q)}

\* Every reordering of the list q (duplicates kept).
Orderings(q) == {[i \in 1..Len(q) |-> q[p[i]]] : p \in Permutations(1..Len(q))}

\* random.shuffle(q): any reordering.
Shuffle(q) == Orderings(q)

\* list.sort() on integers.
Sort(q) == SortSeq(q, LAMBDA a, b : a < b)

\* random.sample(q, k): k elements at k distinct positions of q, in the order
\* drawn.  It raises ValueError when k > len(q): the caller tests CanSample.
CanSample(q, k) == k <= Len(q)

Sample(q, k) ==
    {[i \in 1..k |-> q[p[i]]] :
        p \in {f \in [1..k -> 1..Len(q)] :
                 \A i, j \in 1..k : i # j => f[i] # f[j]}}

(* ---------------------------------------------------------------------- *)
(* load_data and initialize_quiz                                           *)
(* ---------------------------------------------------------------------- *)

\* load_data(): the parsed list, or None (ok = FALSE) when the file is missing.
load_data(f) ==
    IF f.exists THEN [ok |-> TRUE, data |-> f.poems]
    ELSE [ok |-> FALSE, data |-> << >>]

\* `if all_poems:` - neither None nor the empty list.
Truthy(r) == r.ok /\ Len(r.data) > 0

\* ids = [poem["id"] for poem in st.session_state.all_poems]
PoemIds(poems) == [i \in 1..Len(poems) |-> poems[i].id]

\* Mutant: the Random order drawn with replacement (random.choices).
QuestionOrdersWithReplacement(mode, ids) ==
    IF mode = "Random"
    THEN {[i \in 1..Len(ids) |-> ids[p[i]]] : p \in [1..Len(ids) -> 1..Len(ids)]}
    ELSE {Sort(ids)}

\* Mutant: ID mode keeps the order of the file (ids.sort() left out).
QuestionOrdersFileOrder(mode, ids) ==
    IF mode = "Random" THEN Shuffle(ids) ELSE {ids}

QuestionOrders(mode, ids) ==
    IF mode = "Random" THEN Shuffle(ids) ELSE {Sort(ids)}

\* Mutant: initialize_quiz leaves the options of the old question in place.
ClearAnswerKeysKeepOptions(s) ==
    IF Has(s, "user_last_answer") THEN Del(s, "user_last_answer") ELSE s

\* Mutant: initialize_quiz leaves the last answer of the old session in place.
ClearAnswerKeysKeepLastAnswer(s) ==
    IF Has(s, "options") THEN Del(s, "options") ELSE s

ClearAnswerKeys(s) ==
    LET s1 == IF Has(s, "options") THEN Del(s, "options") ELSE s
    IN  IF Has(s1, "user_last_answer") THEN Del(s1, "user_last_answer") ELSE s1

\* Mutant: a score already stored survives the reset (setdefault).
ResetCountersKeepScore(s) ==
    Put(Put(Put(s, "current_question_index", 0),
            "score", IF Has(s, "score") THEN s.score ELSE 0),
        "is_answered", FALSE)

ResetCounters(s) ==
    Put(Put(Put(s, "current_question_index", 0), "score", 0),
        "is_answered", FALSE)

\* initialize_quiz(mode): the session states it can leave behind.
initialize_quiz(s, mode) ==
    LET s1 == Put(Put(s, "mode", mode), "all_poems", load_data(file))
    IN  IF ~s1.all_poems.ok
        THEN {s1}
        ELSE {ClearAnswerKeys(ResetCounters(Put(s1, "question_list", ids))) :
                 ids \in QuestionOrders(mode, PoemIds(s1.all_poems.data))}

(* ---------------------------------------------------------------------- *)
(* One run of the script, down to the widgets of the question              *)
(* ---------------------------------------------------------------------- *)

\* `if q_index < len(st.session_state.question_list):`
QuestionsRemain(s) == s.current_question_index < Len(s.question_list)

\* Mutant: every question is the first of the order (q_index ignored).
CurrentIdAlwaysFirst(s) == s.question_list[1]

\* q_id = st.session_state.question_list[q_index]   (Python indexes from 0)
CurrentId(s) == s.question_list[s.current_question_index + 1]

\* current_poem = next((p for p in all_poems if p["id"] == q_id), None):
\* the position of the first poem with this id, 0 for None.
CurrentPoem(poems, q_id) ==
    IF \E i \in 1..Len(poems) : poems[i].id = q_id
    THEN CHOOSE i \in 1..Len(poems) :
            /\ poems[i].id = q_id
            /\ \A j \in 1..(i - 1) : poems[j].id # q_id
    ELSE 0

\* all_lowers = [p["lower"] for p in all_poems if p["id"] != q_id]
AllLowers(poems, q_id) ==
    LET others == SelectSeq(poems, LAMBDA p : p.id # q_id)
    IN  [i \in 1..Len(others) |-> others[i].lower]

\* options = wrong_options + [correct_lower]; random.shuffle(options)
OptionLists(wrong_options, correct_lower) ==
    Shuffle(wrong_options \o <<correct_lower>>)

\* Mutant: every run draws new options, whether or not some are stored.
GenerateOptionsEveryRun(s, poems) ==
    LET q_id == CurrentId(s)
        cur  == CurrentPoem(poems, q_id)
    IN  IF cur = 0 \/ ~CanSample(AllLowers(poems, q_id), NumDecoys)
        THEN {[st |-> s, raised |-> TRUE]}
        ELSE {[st |-> Put(Put(s, "options", o),
                          "correct_answer", poems[cur].lower),
               raised |-> FALSE] :
                 o \in UNION {OptionLists(w, poems[cur].lower) :
                                w \in Sample(AllLowers(poems, q_id), NumDecoys)}}

\* The option generation of one run.  Each outcome is the session state it
\* leaves and whether the run died in it with an exception (None["lower"],
\* or random.sample's ValueError).
GenerateOptions(s, poems) ==
    LET q_id == CurrentId(s)
        cur  == CurrentPoem(poems, q_id)
    IN  IF Has(s, "options")
        THEN {[st |-> s, raised |-> FALSE]}
        ELSE IF cur = 0 \/ ~CanSample(AllLowers(poems, q_id), NumDecoys)
        THEN {[st |-> s, raised |-> TRUE]}
        ELSE {[st |-> Put(Put(s, "options", o),
                          "correct_answer", poems[cur].lower),
               raised |-> FALSE] :
                 o \in UNION {OptionLists(w, poems[cur].lower) :
                                w \in Sample(AllLowers(poems, q_id), NumDecoys)}}

\* Mutant: the submit button is shown whether or not the question is answered.
ViewAlwaysSubmit(s) == "question"

\* `if st.session_state.is_answered:` shows the result and the next button,
\* its else branch the submit button.
View(s) == IF s.is_answered THEN "result" ELSE "question"

\* Lines 93-117 and the branch the run takes after them.
Question(s, poems) ==
    IF ~Has(s, "current_question_index")
    THEN {[st |-> s, screen |-> "exception"]}
    ELSE IF QuestionsRemain(s)
    THEN {[st |-> g.st,
           screen |-> IF g.raised THEN "exception" ELSE View(g.st)] :
             g \in GenerateOptions(s, poems)}
    ELSE {[st |-> s, screen |-> "complete"]}

\* Mutant: only the first run initializes; a changed mode is ignored.
NeedsInitFirstRunOnly(s, mode) == ~Has(s, "mode")

\* `if "mode" not in st.session_state or st.session_state.mode != mode:`
NeedsInit(s, mode) == ~Has(s, "mode") \/ s.mode # mode

\* Mutant: the quiz logic is entered whatever load_data returned.
QuizEnteredAlways(all_poems) == TRUE

\* `if all_poems:` - the quiz logic is entered only with a usable corpus.
QuizEntered(all_poems) == Truthy(all_poems)

\* A run of the script with the mode radio at `mode` and no button pressed
\* yet: the session state it reaches and the screen it is about to render.
Script(s, mode) ==
    LET all_poems == load_data(file)
    IN  IF ~QuizEntered(all_poems)
        THEN {[st |-> s,
               screen |-> IF all_poems.ok THEN "blank" ELSE "file_error"]}
        ELSE UNION {Question(s2, all_poems.data) :
                      s2 \in (IF NeedsInit(s, mode)
                              THEN initialize_quiz(s, mode) ELSE {s})}

(* ---------------------------------------------------------------------- *)
(* The button handlers                                                     *)
(* ---------------------------------------------------------------------- *)

\* Mutant: the score is raised without comparing the answer.
ScoreAfterAnyAnswer(score, user_answer, correct_answer) == score + 1

\* Mutant: a wrong answer costs a point.
ScoreAfterWithPenalty(score, user_answer, correct_answer) ==
    IF user_answer = correct_answer THEN score + 1 ELSE score - 1

\* `if user_answer == st.session_state.correct_answer: score += 1`
ScoreAfter(score, user_answer, correct_answer) ==
    IF user_answer = correct_answer THEN score + 1 ELSE score

\* Mutant: the submit handler counts the answer and leaves the question open.
SubmitHandlerStaysOpen(s, user_answer) ==
    LET s1 == Put(s, "user_last_answer", user_answer)
    IN  Put(s1, "score", ScoreAfter(s1.score, user_answer, s1.correct_answer))

\* The body of `if st.button("回答する", key="submit_button"):`
SubmitHandler(s, user_answer) ==
    LET s1 == Put(Put(s, "user_last_answer", user_answer), "is_answered", TRUE)
    IN  Put(s1, "score", ScoreAfter(s1.score, user_answer, s1.correct_answer))

\* Mutant: the next button forgets to move to the next question.
NextHandlerNoIncrement(s) ==
    Del(Del(Put(s, "is_answered", FALSE), "options"), "user_last_answer")

\* Mutant: the next button drops the asked question from question_list
\* instead of moving the index.
NextHandlerPopsQuestion(s) ==
    LET s1 == Put(Put(s, "question_list", Tail(s.question_list)),
                  "is_answered", FALSE)
    IN  Del(Del(s1, "options"), "user_last_answer")

\* Mutant: the next button skips ahead by three questions.
NextHandlerSkipsAhead(s) ==
    LET s1 == Put(Put(s, "current_question_index", s.current_question_index + 3),
                  "is_answered", FALSE)
    IN  Del(Del(s1, "options"), "user_last_answer")

\* The body of `if st.button("次の問題へ", key="next_button"):`
NextHandler(s) ==
    LET s1 == Put(Put(s, "current_question_index", s.current_question_index + 1),
                  "is_answered", FALSE)
    IN  Del(Del(s1, "options"), "user_last_answer")

\* Mutant: the retry button only goes back to the first question.
RetryHandlerIndexOnly(s) ==
    {Put(Put(s, "current_question_index", 0), "is_answered", FALSE)}

\* The body of `if st.button("もう一度挑戦する", key="retry_button"):`
RetryHandler(s) == initialize_quiz(s, s.mode)

(* ---------------------------------------------------------------------- *)
(* History                                                                 *)
(* ---------------------------------------------------------------------- *)

Phase(s) ==
    IF ~Has(s, "question_list") THEN "None"
    ELSE IF ~QuestionsRemain(s) THEN "Complete"
    ELSE IF s.is_answered THEN "Answered"
    ELSE "Unanswered"

NoBefore == [phase |-> "None", index |-> 0, score |-> 0, mode |-> "None"]

Snapshot(s) ==
    IF Has(s, "question_list")
    THEN [phase |-> Phase(s), index |-> s.current_question_index,
          score |-> s.score, mode |-> s.mode]
    ELSE NoBefore

\* The question a run has put to the user with new options: the id it looked
\* up at line 97, or nothing when the run rendered no question.
FirstShown(r) ==
    IF r.screen = "question" THEN <<CurrentId(r.st)>> ELSE << >>

\* `lower` is the lower half of a poem of the file with this id.
IsLowerOf(lower, id) ==
    \E i \in 1..Len(file.poems) :
        file.poems[i].id = id /\ file.poems[i].lower = lower

\* The value of the mode radio (key "mode_selector"): its first option on the
\* first run, afterwards the selected mode, which the run stored as mode.
ModeRadio == IF Has(st, "mode") THEN st.mode ELSE "ID"

(* ---------------------------------------------------------------------- *)
(* Events                                                                  *)
(* ---------------------------------------------------------------------- *)

Init ==
    /\ file \in Files
    /\ st = EmptySession
    /\ screen = "none"
    /\ event = "none"
    /\ before = NoBefore
    /\ submits = 0
    /\ advances = 0
    /\ shown = << >>
    /\ answered = << >>
    /\ correct = 0

\* The first run of the script in a new browser session.
Start ==
    /\ event = "none"
    /\ \E r \in Script(st, ModeRadio) :
          /\ st' = r.st
          /\ screen' = r.screen
          /\ shown' = FirstShown(r)
    /\ event' = "start"
    /\ UNCHANGED <<file, before, submits, advances, answered, correct>>

\* A run with no button pressed and the mode radio untouched (the user picks
\* another radio option of the question, or reloads the view).
Rerun ==
    /\ event # "none"
    /\ \E r \in Script(st, ModeRadio) :
          /\ st' = r.st
          /\ screen' = r.screen
    /\ UNCHANGED <<file, event, before, submits, advances,
                   shown, answered, correct>>

\* The user picks the other mode in the sidebar.
SelectMode(m) ==
    /\ screen \notin {"none", "file_error", "blank"}
    /\ m # ModeRadio
    /\ \E r \in Script(st, m) :
          /\ st' = r.st
          /\ screen' = r.screen
          /\ shown' = FirstShown(r)
    /\ event' = "mode"
    /\ before' = Snapshot(st)
    /\ submits' = 0
    /\ advances' = 0
    /\ answered' = << >>
    /\ correct' = 0
    /\ UNCHANGED file

\* The user presses 回答する with the radio of the question at options[i].
Submit ==
    /\ screen = "question"
    /\ \E r \in Script(st, ModeRadio) :
          /\ r.screen = "question"
          /\ \E i \in 1..Len(r.st.options) :
                /\ \E r2 \in Script(SubmitHandler(r.st, r.st.options[i]), ModeRadio) :
                      /\ st' = r2.st
                      /\ screen' = r2.screen
                /\ answered' = Append(answered, CurrentId(r.st))
                /\ correct' = correct
                      + (IF IsLowerOf(r.st.options[i], CurrentId(r.st)) THEN 1 ELSE 0)
    /\ event' = "submit"
    /\ before' = NoBefore
    /\ submits' = submits + 1
    /\ UNCHANGED <<file, advances, shown>>

\* The user presses 次の問題へ.
Advance ==
    /\ screen = "result"
    /\ \E r \in Script(st, ModeRadio) :
          /\ r.screen = "result"
          /\ \E r2 \in Script(NextHandler(r.st), ModeRadio) :
                /\ st' = r2.st
                /\ screen' = r2.screen
                /\ shown' = shown \o FirstShown(r2)
    /\ event' = "advance"
    /\ before' = NoBefore
    /\ submits' = 0
    /\ advances' = advances + 1
    /\ UNCHANGED <<file, answered, correct>>

\* The user presses もう一度挑戦する.
Restart ==
    /\ screen = "complete"
    /\ \E r \in Script(st, ModeRadio) :
          /\ r.screen = "complete"
          /\ \E s1 \in RetryHandler(r.st) :
                \E r2 \in Script(s1, ModeRadio) :
                   /\ st' = r2.st
                   /\ screen' = r2.screen
                   /\ shown' = FirstShown(r2)
    /\ event' = "restart"
    /\ before' = Snapshot(st)
    /\ submits' = 0
    /\ advances' = 0
    /\ answered' = << >>
    /\ correct' = 0
    /\ UNCHANGED file

Next ==
    \/ Start
    \/ Rerun
    \/ \E m \in Modes : SelectMode(m)
    \/ Submit
    \/ Advance
    \/ Restart

Spec == Init /\ [][Next]_vars

\* One session from its start to completion: the mode is chosen before the
\* first answer, and there is no mode change or restart afterwards.
ChooseMode(m) == event \in {"start", "mode"} /\ SelectMode(m)

NextSession ==
    \/ Start
    \/ Rerun
    \/ \E m \in Modes : ChooseMode(m)
    \/ Submit
    \/ Advance

\* A result screen is showing: the next button is the only widget that leaves
\* it (the mode radio is not touched after the first answer).
ResultShown == screen = "result"

\* The user keeps going: the first run happens, a shown question is eventually
\* answered, and a shown result is eventually left.  The last is weak fairness
\* of Advance, written on the states: under NextSession only an Advance step
\* leaves a result screen.
LiveSpec ==
    /\ Init
    /\ [][NextSession]_vars
    /\ WF_vars(Start)
    /\ WF_vars(Submit)
    /\ (ResultShown ~> ~ResultShown)

\* The quiz over DupCorpus with the mode radio left at its first option.
InitDup ==
    /\ file = [exists |-> TRUE, poems |-> DupCorpus]
    /\ st = EmptySession
    /\ screen = "none"
    /\ event = "none"
    /\ before = NoBefore
    /\ submits = 0
    /\ advances = 0
    /\ shown = << >>
    /\ answered = << >>
    /\ correct = 0

NextDup ==
    \/ Start
    \/ Rerun
    \/ Submit
    \/ Advance
    \/ Restart

SpecDup == InitDup /\ [][NextDup]_vars

(* ---------------------------------------------------------------------- *)
(* Vocabulary of the properties                                            *)
(* ---------------------------------------------------------------------- *)

\* The ids and the lower halves of the corpus in the file.
CorpusIds == {file.poems[i].id : i \in 1..Len(file.poems)}

CorpusLowers == {file.poems[i].lower : i \in 1..Len(file.poems)}

\* The lower halves of the poems whose id is `id`.
LowersOf(id) ==
    {file.poems[i].lower : i \in {j \in 1..Len(file.poems) : file.poems[j].id = id}}

Active == Has(st, "question_list")

IsOrderingOfCorpus(q) ==
    /\ Len(q) = Len(file.poems)
    /\ Range(q) = CorpusIds
    /\ \A i, j \in 1..Len(q) : i # j => q[i] # q[j]

InQuestion ==
    Active /\ st.current_question_index < Len(st.question_list)

Unanswered == InQuestion /\ ~st.is_answered

Answered == InQuestion /\ st.is_answered

Complete == Active /\ st.current_question_index = Len(st.question_list)

\* Steps, told apart by the history variables the events write.
SubmitStep == event' = "submit" /\ submits' = submits + 1

AdvanceStep == event' = "advance" /\ advances' = advances + 1

RestartStep == event' = "restart" /\ screen = "complete"

ModeStep == event' = "mode"

Ascending(q) == \A i \in 1..(Len(q) - 1) : q[i] < q[i + 1]

\* The corpus has enough poems for 3 decoys and the correct answer.
Sufficient == file.exists /\ Len(file.poems) >= NumDecoys + 1

PairwiseDistinct(q) == \A i, j \in 1..Len(q) : i # j => q[i] # q[j]

(* ---------------------------------------------------------------------- *)
(* C1                                                                      *)
(* ---------------------------------------------------------------------- *)

\* C1: once initialize_quiz has run, in both modes and after any sequence of
\* submit, advance, restart and mode-change events, question_list has as many
\* entries as the corpus and holds every corpus id exactly once.
C1_OrderIsPermutation == Active => IsOrderingOfCorpus(st.question_list)

\* A Random session restarted after completion, its order not the sorted one.
C1_Witness ==
    /\ Active
    /\ st.mode = "Random"
    /\ event = "restart"
    /\ Len(st.question_list) >= NumDecoys + 1
    /\ \E i \in 1..(Len(st.question_list) - 1) :
          st.question_list[i] > st.question_list[i + 1]

(* ---------------------------------------------------------------------- *)
(* C2                                                                      *)
(* ---------------------------------------------------------------------- *)

\* C2: whenever options are stored for the current question, there are exactly
\* 4 of them, correct_answer is one of them, and correct_answer is the lower
\* half of the poem with id question_list[current_question_index]; also right
\* after a mode change or restart that found an older correct_answer stored.
C2_OptionsMatchQuestion ==
    (Active /\ Has(st, "options") /\ QuestionsRemain(st)) =>
        /\ Len(st.options) = 4
        /\ Has(st, "correct_answer")
        /\ \E i \in 1..Len(st.options) : st.options[i] = st.correct_answer
        /\ LowersOf(st.question_list[st.current_question_index + 1])
              = {st.correct_answer}

\* The first question of a session started by a mode change that found an
\* answered later question, whose correct_answer was still stored.
C2_Witness ==
    /\ event = "mode"
    /\ before.phase = "Answered"
    /\ before.index >= 1
    /\ Has(st, "options")
    /\ st.current_question_index = 0

(* ---------------------------------------------------------------------- *)
(* C3                                                                      *)
(* ---------------------------------------------------------------------- *)

\* C3: for a corpus with at least 4 distinct lower halves, the 4 options of
\* every question are pairwise distinct.
C3_OptionsDistinct ==
    (Has(st, "options") /\ Cardinality(CorpusLowers) >= 4) =>
        PairwiseDistinct(st.options)

(* ---------------------------------------------------------------------- *)
(* C4                                                                      *)
(* ---------------------------------------------------------------------- *)

\* C4: a submit event with choice c stores c as user_last_answer, sets
\* is_answered, and changes the score by +1 when c is the correct answer and
\* by 0 when it is not; the score changes in no other step, except that an
\* initialization sets it to 0.
C4_SubmitScores ==
    [][ /\ SubmitStep =>
             /\ Has(st', "user_last_answer")
             /\ \E i \in 1..Len(st.options) :
                   st'.user_last_answer = st.options[i]
             /\ st'.is_answered = TRUE
             /\ st'.score = st.score
                   + (IF st'.user_last_answer = st.correct_answer THEN 1 ELSE 0)
        /\ (Has(st, "score") /\ Has(st', "score") /\ st'.score # st.score) =>
             \/ SubmitStep
             \/ st'.score = 0 /\ (RestartStep \/ ModeStep)
      ]_vars

\* A wrong answer just submitted (score unchanged) in a session in which an
\* earlier submit of the correct answer has raised the score.
C4_Witness ==
    /\ event = "submit"
    /\ Answered
    /\ st.user_last_answer # st.correct_answer
    /\ st.score >= 1

(* ---------------------------------------------------------------------- *)
(* C5                                                                      *)
(* ---------------------------------------------------------------------- *)

\* C5: a submit event is possible only in the Unanswered phase of a question
\* (index < len(question_list)), an advance event only in the Answered phase,
\* the submitted choice is one of the current options, and no question is
\* submitted more than once before the session advances past it.
C5_Gating ==
    /\ (ENABLED Submit) => (Unanswered /\ Has(st, "options"))
    /\ (ENABLED Advance) => Answered
    /\ Has(st, "user_last_answer") =>
          /\ Has(st, "options")
          /\ \E i \in 1..Len(st.options) : st.user_last_answer = st.options[i]
    /\ submits <= 1

\* An answered question after at least one advance: advance is possible,
\* a second submit is not.
C5_Witness ==
    /\ Answered
    /\ submits = 1
    /\ advances >= 1
    /\ ENABLED Advance
    /\ ~(ENABLED Submit)

(* ---------------------------------------------------------------------- *)
(* C6                                                                      *)
(* ---------------------------------------------------------------------- *)

\* C6: in a session over n >= 4 poems with no mode change or restart after its
\* first answer, the session is Complete exactly when n advance events have
\* happened (never before the n-th), the score is then and always at most n,
\* and with submit and advance fair the session eventually is Complete.
C6_FullSession ==
    /\ [](Sufficient /\ Active =>
            /\ advances <= Len(st.question_list)
            /\ Complete <=> advances = Len(file.poems)
            /\ st.score <= Len(file.poems))
    /\ (Sufficient /\ Active) ~> Complete

\* A Random session over 4 poems completed by its 4th advance, with a score
\* that is neither 0 nor 4.
C6_Witness ==
    /\ Sufficient
    /\ Complete
    /\ event = "advance"
    /\ advances = Len(file.poems)
    /\ st.mode = "Random"
    /\ st.score >= 1
    /\ st.score < Len(file.poems)

(* ---------------------------------------------------------------------- *)
(* C7                                                                      *)
(* ---------------------------------------------------------------------- *)

\* C7: the restart event, possible in the Complete state only, sets score and
\* current_question_index to 0, the phase to Unanswered with no
\* user_last_answer, keeps the mode, and leaves a question_list that is a full
\* ordering of the corpus ids for that mode.
C7_Restart ==
    [][ RestartStep =>
          /\ Complete
          /\ st'.score = 0
          /\ st'.current_question_index = 0
          /\ st'.is_answered = FALSE
          /\ ~Has(st', "user_last_answer")
          /\ st'.mode = st.mode
          /\ IsOrderingOfCorpus(st'.question_list)
          /\ st'.mode = "ID" => Ascending(st'.question_list)
      ]_vars

\* A Random session restarted from Complete with score 3.
C7_Witness ==
    /\ event = "restart"
    /\ before.phase = "Complete"
    /\ before.score = 3
    /\ before.mode = "Random"
    /\ st.mode = "Random"
    /\ st.score = 0

(* ---------------------------------------------------------------------- *)
(* C8                                                                      *)
(* ---------------------------------------------------------------------- *)

\* C8: for a corpus of fewer than 4 poems no session is started (no order,
\* index, score or phase is stored), and the failure is not one met while
\* generating the options of a question.
C8_SmallCorpusStartsNoSession ==
    (file.exists /\ Len(file.poems) < NumDecoys + 1) =>
        /\ ~Has(st, "question_list")
        /\ ~Has(st, "current_question_index")
        /\ ~Has(st, "score")
        /\ ~Has(st, "is_answered")
        /\ screen # "exception"

(* ---------------------------------------------------------------------- *)
(* C9                                                                      *)
(* ---------------------------------------------------------------------- *)

\* C9: when the corpus file is absent, every run shows the error and stores
\* nothing in the session state (no mode, question_list,
\* current_question_index, score, is_answered or options), and no submit,
\* advance or restart event is possible.
C9_NoFileNoQuiz ==
    ~file.exists =>
        /\ DOMAIN st = {}
        /\ event # "none" => screen = "file_error"
        /\ ~(ENABLED Submit)
        /\ ~(ENABLED Advance)
        /\ ~(ENABLED Restart)

\* The first run without the file has shown the error.
C9_Witness ==
    /\ ~file.exists
    /\ event = "start"
    /\ screen = "file_error"

(* ---------------------------------------------------------------------- *)
(* C10                                                                     *)
(* ---------------------------------------------------------------------- *)

\* C10: selecting the other mode, in any phase and at any index and score,
\* leaves mode at the selected mode, current_question_index and score at 0,
\* the phase Unanswered with no user_last_answer, question_list a fresh
\* ordering for the new mode, and (for a sufficient corpus) options and
\* correct_answer of the question at question_list[0].
C10_ModeChangeResets ==
    [][ ModeStep =>
          /\ Has(st, "mode")
          /\ st'.mode \in Modes \ {st.mode}
          /\ st'.current_question_index = 0
          /\ st'.score = 0
          /\ st'.is_answered = FALSE
          /\ ~Has(st', "user_last_answer")
          /\ IsOrderingOfCorpus(st'.question_list)
          /\ st'.mode = "ID" => Ascending(st'.question_list)
          /\ Sufficient =>
                /\ Has(st', "options")
                /\ Len(st'.options) = 4
                /\ \E i \in 1..Len(st'.options) :
                      st'.options[i] = st'.correct_answer
                /\ LowersOf(st'.question_list[1]) = {st'.correct_answer}
      ]_vars

\* Random selected on the completion screen of a session with a score.
C10_Witness ==
    /\ event = "mode"
    /\ before.phase = "Complete"
    /\ before.score >= 1
    /\ before.mode = "ID"
    /\ st.mode = "Random"
    /\ Has(st, "options")
    /\ st.current_question_index = 0

(* ---------------------------------------------------------------------- *)
(* C11                                                                     *)
(* ---------------------------------------------------------------------- *)

\* A run with no button pressed and the mode radio untouched: the only step
\* that writes none of the history variables.
RerunStep == UNCHANGED <<event, before, submits, advances>>

\* The step of a first run, an advance, a restart or a mode change.
FreshQuestionStep ==
    /\ event' \in {"start", "advance", "restart", "mode"}
    /\ ~RerunStep

\* What is stored under key k: the one-element list of its value, or << >>.
Stored(s, k) == IF Has(s, k) THEN <<s[k]>> ELSE << >>

\* C11: a run with no event and a submit event both leave the stored options
\* (contents and order) and correct_answer as they were; what is stored as
\* options or correct_answer changes only in the step of a first run, an
\* advance, a restart or a mode change.
C11_OptionsStable ==
    [][ /\ (RerunStep \/ SubmitStep) =>
             /\ Stored(st', "options") = Stored(st, "options")
             /\ Stored(st', "correct_answer") = Stored(st, "correct_answer")
        /\ \/ Stored(st', "options") # Stored(st, "options")
           \/ Stored(st', "correct_answer") # Stored(st, "correct_answer")
           => FreshQuestionStep
      ]_vars

\* The second question of a session just answered: the options in front of
\* the user are those the advance generated.
C11_Witness ==
    /\ event = "submit"
    /\ Answered
    /\ advances >= 1
    /\ Has(st, "options")
    /\ Len(st.options) = NumDecoys + 1
    /\ st.user_last_answer # st.correct_answer

(* ---------------------------------------------------------------------- *)
(* C12                                                                     *)
(* ---------------------------------------------------------------------- *)

\* C12: in ID mode (the ids of the corpus being unique) question_list is
\* strictly ascending by id and holds exactly the corpus ids, after the first
\* initialization, after every restart and after a change to ID mode, so every
\* ID session asks the questions in one and the same order.
C12_SequentialAscending ==
    (Active /\ st.mode = "ID") =>
        /\ Ascending(st.question_list)
        /\ Range(st.question_list) = CorpusIds
        /\ Len(st.question_list) = Cardinality(CorpusIds)

\* An ID session over 4 poems, stored in the file as 2, 1, 4, 3, restarted
\* after completion.
C12_Witness ==
    /\ Active
    /\ st.mode = "ID"
    /\ event = "restart"
    /\ before.mode = "ID"
    /\ PoemIds(file.poems) = <<2, 1, 4, 3>>
    /\ st.question_list = <<1, 2, 3, 4>>

(* ---------------------------------------------------------------------- *)
(* C13                                                                     *)
(* ---------------------------------------------------------------------- *)

\* C13, as stated: in every state of a session, Unanswered or Answered,
\* 0 <= score <= current_question_index.
C13_ScoreAtMostIndex ==
    Active =>
        /\ 0 <= st.score
        /\ st.score <= st.current_question_index

\* C13, amended: in every state of a session 0 <= score; the score is at most
\* current_question_index in the Unanswered phase and when Complete, and at
\* most current_question_index + 1 in the Answered phase, where the answer to
\* the current question is already counted.
C13_ScoreBound ==
    Active =>
        /\ 0 <= st.score
        /\ ~st.is_answered => st.score <= st.current_question_index
        /\ st.is_answered => st.score <= st.current_question_index + 1

\* The second question answered, every answer so far correct: the score is
\* one more than the index.
C13_Witness ==
    /\ Answered
    /\ st.current_question_index >= 1
    /\ st.score = st.current_question_index + 1

(* ---------------------------------------------------------------------- *)
(* C14                                                                     *)
(* ---------------------------------------------------------------------- *)

\* C14: in every state of a session, whatever submit, advance, restart and
\* mode-change events led to it, 0 <= current_question_index <=
\* len(question_list), and once the session is Complete no advance event is
\* possible.
C14_IndexInRange ==
    Active =>
        /\ 0 <= st.current_question_index
        /\ st.current_question_index <= Len(st.question_list)
        /\ Complete => ~(ENABLED Advance)

\* The advance after the last of 4 questions: the index is at the end of the
\* order and the next button is gone.
C14_Witness ==
    /\ Complete
    /\ event = "advance"
    /\ st.current_question_index = Len(st.question_list)
    /\ Len(st.question_list) = NumDecoys + 1
    /\ ~(ENABLED Advance)

(* ---------------------------------------------------------------------- *)
(* C15                                                                     *)
(* ---------------------------------------------------------------------- *)

\* The run of the event failed: the corpus file was missing, or the run died
\* while generating options.
RunFailed == screen' \in {"file_error", "exception"}

\* C15: whenever the run of an event fails, for a missing corpus or for a
\* corpus of fewer than 4 poems, the session state after the failure is the
\* session state before the event.
C15_FailureLeavesState ==
    [][ RunFailed => st' = st ]_vars

(* ---------------------------------------------------------------------- *)
(* C16                                                                     *)
(* ---------------------------------------------------------------------- *)

\* C16: an advance event happens in the Answered phase, adds exactly 1 to
\* current_question_index, leaves the phase Unanswered with no
\* user_last_answer, and clears options, correct_answer and user_last_answer:
\* after the advance past the last question none of the three is stored.
C16_AdvanceClears ==
    [][ AdvanceStep =>
          /\ Answered
          /\ st'.current_question_index = st.current_question_index + 1
          /\ st'.is_answered = FALSE
          /\ ~Has(st', "user_last_answer")
          /\ st'.current_question_index = Len(st'.question_list) =>
                /\ ~Has(st', "options")
                /\ ~Has(st', "correct_answer")
      ]_vars

(* ---------------------------------------------------------------------- *)
(* C17                                                                     *)
(* ---------------------------------------------------------------------- *)

\* C17: in every state of a session user_last_answer is stored exactly when
\* is_answered is True; it is not stored after the first initialization, an
\* advance, a restart or a mode change; and when stored it is one of the
\* options of the current question.
C17_LastAnswerIffAnswered ==
    Active =>
        /\ Has(st, "user_last_answer") <=> st.is_answered
        /\ event \in {"start", "advance", "restart", "mode"} =>
              ~Has(st, "user_last_answer")
        /\ Has(st, "user_last_answer") =>
              /\ Has(st, "options")
              /\ st.user_last_answer \in Range(st.options)

\* The question after a correctly answered one: the advance has removed the
\* answer the user gave.
C17_Witness ==
    /\ Unanswered
    /\ event = "advance"
    /\ st.score >= 1
    /\ ~Has(st, "user_last_answer")
    /\ Has(st, "options")

(* ---------------------------------------------------------------------- *)
(* C18                                                                     *)
(* ---------------------------------------------------------------------- *)

\* The step of an event whose run calls initialize_quiz: the first run, a
\* restart or a mode change.
InitializeStep ==
    /\ event' \in {"start", "restart", "mode"}
    /\ ~RerunStep

\* C18: submit and advance events, and runs with no event, leave question_list
\* and mode as they were; question_list changes only in a step that runs
\* initialize_quiz (first run, mode change or restart).
C18_OrderFixed ==
    [][ /\ (SubmitStep \/ AdvanceStep \/ RerunStep) =>
             /\ Stored(st', "question_list") = Stored(st, "question_list")
             /\ Stored(st', "mode") = Stored(st, "mode")
        /\ Stored(st', "question_list") # Stored(st, "question_list") =>
             InitializeStep
      ]_vars

\* A Random session two advances on, its order not the sorted one.
C18_Witness ==
    /\ Unanswered
    /\ event = "advance"
    /\ advances = 2
    /\ st.mode = "Random"
    /\ st.current_question_index = 2
    /\ ~Ascending(st.question_list)

(* ---------------------------------------------------------------------- *)
(* C19                                                                     *)
(* ---------------------------------------------------------------------- *)

\* 1 when the current question is answered, else 0.
AnsweredNow == IF st.is_answered THEN 1 ELSE 0

\* C19: in every state of a session the score is the number of submits of
\* this session whose choice was the lower half of the question's poem, so
\* score <= current_question_index + (1 if is_answered else 0) <=
\* len(question_list); within a session the score never goes down, and it is
\* set back only by a step that runs initialize_quiz.
C19_ScoreCountsCorrect ==
    /\ [](Active =>
            /\ st.score = correct
            /\ st.score <= st.current_question_index + AnsweredNow
            /\ st.current_question_index + AnsweredNow <= Len(st.question_list))
    /\ [][ (Active /\ st'.score < st.score) =>
              /\ InitializeStep
              /\ st'.score = 0
         ]_vars

\* The third question answered wrongly after one right and one wrong answer:
\* the score is 1, below the number of answers given.
C19_Witness ==
    /\ Answered
    /\ event = "submit"
    /\ Len(answered) = 3
    /\ correct = 1
    /\ st.score = 1
    /\ st.user_last_answer # st.correct_answer

(* ---------------------------------------------------------------------- *)
(* C20                                                                     *)
(* ---------------------------------------------------------------------- *)

\* The first n entries of q.
Prefix(q, n) == SubSeq(q, 1, n)

\* C20: in a session over a sufficient corpus, from its initialization on and
\* with no mode change or restart since, the questions put to the user so far
\* are the first entries of question_list, in that order, up to the current
\* one; the questions answered so far are the same ones, each answered once,
\* the current one included exactly when it is answered; and when the session
\* is Complete every poem of the corpus has been put to the user exactly once
\* and answered exactly once.
C20_EveryPoemOnce ==
    (Active /\ Sufficient) =>
        /\ InQuestion =>
              shown = Prefix(st.question_list, st.current_question_index + 1)
        /\ answered =
              Prefix(st.question_list, st.current_question_index + AnsweredNow)
        /\ Complete =>
              /\ shown = st.question_list
              /\ answered = st.question_list
              /\ Range(shown) = CorpusIds
              /\ PairwiseDistinct(shown)
              /\ Len(shown) = Len(file.poems)

\* A Random session over 4 poems run to completion, its order not the sorted
\* one: all 4 poems were asked and answered in the order of question_list.
C20_Witness ==
    /\ Complete
    /\ event = "advance"
    /\ st.mode = "Random"
    /\ Len(shown) = NumDecoys + 1
    /\ shown = st.question_list
    /\ answered = shown
    /\ ~Ascending(shown)

====
